---- MODULE Spec2Model ----
(***************************************************************************)
(* A model of litevec (src/lib.go): vocabulary indexing, unigram and       *)
(* skip-gram statistics, PMI, incidence-based keyword ranking and          *)
(* cross-corpus adjacency.                                                 *)
(*                                                                         *)
(* float64 values are modelled as exact extended rationals: a record       *)
(* [n, d] with d > 0 is the number n/d in lowest terms, d = 0 is +Inf      *)
(* (n = 1), -Inf (n = -1) or NaN (n = 0).  Rounding is not modelled; the   *)
(* IEEE-754 results of dividing by zero and of arithmetic on Inf and NaN   *)
(* are.  Go slices and maps are 0-based / keyed; TLA+ sequences are        *)
(* 1-based, so Go's s[i] is written s[i + 1].                              *)
(***************************************************************************)
EXTENDS Integers, Sequences, FiniteSets, TLC

VARIABLES pc, D, maxJuxt, I, n, ret, panic, M, args, p, P, Qs, todo, V, A, callerA

vars == <<pc, D, maxJuxt, I, n, ret, panic, M, args, p, P, Qs, todo, V, A, callerA>>

\* ---------------------------------------------------------------- bounds
MaxLen == 6
MaxJuxtBound == 2
MaxScore == 2
MaxN == 5
MaxCorpora == 3
VecDim == 2
MaxComp == 1

Terms == {"a", "b", "c"}

\* The terms of the embedding mappings given to Between.
AdjTerms == {"a", "b"}

\* ------------------------------------------------------------- float64
Abs(x) == IF x < 0 THEN -x ELSE x

Sgn(x) == IF x < 0 THEN -1 ELSE IF x > 0 THEN 1 ELSE 0

RECURSIVE Gcd(_, _)
Gcd(a, b) == IF b = 0 THEN a ELSE Gcd(b, a % b)

NaN == [n |-> 0, d |-> 0]

PosInf == [n |-> 1, d |-> 0]

NegInf == [n |-> -1, d |-> 0]

Inf(s) == IF s < 0 THEN NegInf ELSE PosInf

Rat(a, b) == LET g == Gcd(Abs(a), b) IN [n |-> a \div g, d |-> b \div g]

FromInt(k) == [n |-> k, d |-> 1]

IsNaN(x) == x.d = 0 /\ x.n = 0

IsInf(x) == x.d = 0 /\ x.n # 0

IsFinite(x) == x.d # 0

IsZero(x) == x.d # 0 /\ x.n = 0

FAdd(x, y) ==
    IF IsNaN(x) \/ IsNaN(y) THEN NaN
    ELSE IF IsInf(x) /\ IsInf(y) THEN (IF x.n = y.n THEN x ELSE NaN)
    ELSE IF IsInf(x) THEN x
    ELSE IF IsInf(y) THEN y
    ELSE Rat(x.n * y.d + y.n * x.d, x.d * y.d)

FMul(x, y) ==
    IF IsNaN(x) \/ IsNaN(y) THEN NaN
    ELSE IF IsInf(x) \/ IsInf(y)
         THEN (IF IsZero(x) \/ IsZero(y) THEN NaN ELSE Inf(Sgn(x.n) * Sgn(y.n)))
    ELSE Rat(x.n * y.n, x.d * y.d)

\* x / y.  A zero divisor gives +-Inf, or NaN for 0/0: Go's float64 division
\* never panics.  (Every zero of the model is +0.)
FDiv(x, y) ==
    IF IsNaN(x) \/ IsNaN(y) THEN NaN
    ELSE IF IsInf(x) /\ IsInf(y) THEN NaN
    ELSE IF IsInf(x) THEN Inf(x.n * (IF y.n < 0 THEN -1 ELSE 1))
    ELSE IF IsInf(y) THEN FromInt(0)
    ELSE IF y.n = 0 THEN (IF x.n = 0 THEN NaN ELSE Inf(x.n))
    ELSE Rat(x.n * y.d * Sgn(y.n), x.d * Abs(y.n))

\* x < y on float64: false whenever either side is NaN.
FLess(x, y) ==
    IF IsNaN(x) \/ IsNaN(y) THEN FALSE
    ELSE IF IsInf(x) \/ IsInf(y)
         THEN (IF IsInf(x) /\ IsInf(y) THEN x.n < y.n
               ELSE IF IsInf(x) THEN x.n < 0
               ELSE y.n > 0)
    ELSE x.n * y.d < y.n * x.d

\* math.Log(x), kept symbolically as the record [log |-> x].  It is finite
\* exactly when 0 < x < +Inf; Log(+Inf) = +Inf, Log(0) = -Inf, Log(NaN) = NaN.
Log(x) == [log |-> x]

LogIsFinite(v) == IsFinite(v.log) /\ v.log.n > 0

\* log x + log y = log (x * y), also on the extended reals.
LogAdd(u, v) == [log |-> FMul(u.log, v.log)]

\* ------------------------------------------------------------- Go maps
\* A Go map is nil or allocated.  Reading a nil map finds nothing; writing
\* to it panics.
EmptyKV == [t \in {} |-> 0]

NilMap == [nil |-> TRUE, kv |-> EmptyKV]

MakeMap == [nil |-> FALSE, kv |-> EmptyKV]

MapHas(m, k) == k \in DOMAIN m.kv

MapLen(m) == Cardinality(DOMAIN m.kv)

MapPut(m, k, v) ==
    [m EXCEPT !.kv = [x \in DOMAIN m.kv \cup {k} |-> IF x = k THEN v ELSE m.kv[x]]]

\* ------------------------------------------------------------------ Doc
RECURSIVE MkDocLoop(_, _, _, _)
MkDocLoop(text, at, idx, i) ==
    IF at > Len(text) THEN [panic |-> FALSE, TokenIndices |-> idx]
    ELSE LET t == text[at] IN
         IF MapHas(idx, t) THEN MkDocLoop(text, at + 1, idx, i)
         ELSE IF idx.nil THEN [panic |-> TRUE, TokenIndices |-> idx]
         ELSE MkDocLoop(text, at + 1, MapPut(idx, t, i), i + 1)

\* MkDoc never allocates rtn.TokenIndices: the loop starts from the nil map.
MkDoc(text) ==
    LET r == MkDocLoop(text, 1, NilMap, 0)
    IN  [panic |-> r.panic, Tokens |-> text, TokenIndices |-> r.TokenIndices]

Texts == UNION {[1..k -> Terms] : k \in 0..MaxLen}

\* The documents the other operations are called on: a Doc literal whose
\* TokenIndices is allocated and holds the first-occurrence index of Tokens.
DocOf(text) ==
    [Tokens |-> text, TokenIndices |-> MkDocLoop(text, 1, MakeMap, 0).TokenIndices]

Docs == {DocOf(text) : text \in Texts}

VocabLength(d) == MapLen(d.TokenIndices)

Ids(d) == 0..(VocabLength(d) - 1)

Tok(d, i) == d.Tokens[i + 1]

TokId(d, t) == d.TokenIndices.kv[t]

RECURSIVE UnigramCount(_, _, _)
UnigramCount(d, at, rtn) ==
    IF at > Len(d.Tokens) THEN rtn
    ELSE UnigramCount(d, at + 1,
            [rtn EXCEPT ![TokId(d, d.Tokens[at])] = FAdd(@, FromInt(1))])

UnigramPs(d) ==
    LET rtn == UnigramCount(d, 1, [i \in Ids(d) |-> FromInt(0)])
    IN  [i \in Ids(d) |-> FDiv(rtn[i], FromInt(VocabLength(d)))]

RECURSIVE SkipgramLoop(_, _, _, _, _)
SkipgramLoop(d, maxJ, i, j, rtn) ==
    IF ~(i < Len(d.Tokens) - maxJ - 1) THEN rtn
    ELSE IF ~(j < maxJ) THEN SkipgramLoop(d, maxJ, i + 1, 0, rtn)
    ELSE LET a_i == TokId(d, Tok(d, i))
             displacement == FromInt(Abs(j))
             w == FDiv(FromInt(1), displacement)
             b1 == TokId(d, Tok(d, i + j))
             b2 == TokId(d, Tok(d, i - j))
             r1 == [rtn EXCEPT ![a_i][b1] = FAdd(@, w)]
             r2 == [r1 EXCEPT ![a_i][b2] = FAdd(@, w)]
         IN  SkipgramLoop(d, maxJ, i, j + 1, r2)

\* The sparse matrix is modelled by its At/Set contract: an n x n table of
\* float64, 0 where nothing was stored.
SkipgramPs(d, maxJ) ==
    LET zero == [i \in Ids(d) |-> [j \in Ids(d) |-> FromInt(0)]]
        acc  == SkipgramLoop(d, maxJ, maxJ, 0, zero)
    IN  [i \in Ids(d) |-> [j \in Ids(d) |->
            IF IsZero(acc[i][j]) THEN acc[i][j]
            ELSE FDiv(acc[i][j], FromInt(Len(d.Tokens)))]]

\* Only the non-zero cells of the co-occurrence matrix are rewritten; the
\* others stay 0.0 = Log(1).
PMIs(d, maxJ) ==
    LET U  == UnigramPs(d)
        N0 == SkipgramPs(d, maxJ)
    IN  [i \in Ids(d) |-> [j \in Ids(d) |->
            IF IsZero(N0[i][j]) THEN Log(FromInt(1))
            ELSE Log(FDiv(N0[i][j], FMul(U[i], U[j])))]]

\* ------------------------------------------------------------------ Init
Init ==
    /\ pc = "idle"
    /\ D = DocOf(<<>>)
    /\ maxJuxt = 1
    /\ I = NilMap
    /\ n = [nil |-> TRUE, v |-> 0]
    /\ ret = "none"
    /\ panic = FALSE
    /\ M = <<>>
    /\ args = <<>>
    /\ p = 0
    /\ P = EmptyKV
    /\ Qs = <<>>
    /\ todo = {}
    /\ V = {}
    /\ A = NilMap
    /\ callerA = NilMap

\* ------------------------------------------------------ document actions
CallMkDoc ==
    /\ pc = "idle"
    /\ \E text \in Texts :
          LET r == MkDoc(text) IN
          /\ D' = [Tokens |-> text, TokenIndices |-> r.TokenIndices]
          /\ panic' = r.panic
    /\ pc' = "MkDoc"
    /\ UNCHANGED <<maxJuxt, I, n, ret, M, args, p, P, Qs, todo, V, A, callerA>>

CallUnigramPs ==
    /\ pc = "idle"
    /\ \E d \in Docs :
          /\ D' = d
          /\ ret' = UnigramPs(d)
    /\ pc' = "UnigramPs"
    /\ UNCHANGED <<maxJuxt, I, n, panic, M, args, p, P, Qs, todo, V, A, callerA>>

CallSkipgramPs ==
    /\ pc = "idle"
    /\ \E d \in Docs, mj \in 1..MaxJuxtBound :
          /\ D' = d
          /\ maxJuxt' = mj
          /\ ret' = SkipgramPs(d, mj)
    /\ pc' = "SkipgramPs"
    /\ UNCHANGED <<I, n, panic, M, args, p, P, Qs, todo, V, A, callerA>>

CallPMIs ==
    /\ pc = "idle"
    /\ \E d \in Docs, mj \in 1..MaxJuxtBound :
          /\ D' = d
          /\ maxJuxt' = mj
          /\ ret' = PMIs(d, mj)
    /\ pc' = "PMIs"
    /\ UNCHANGED <<I, n, panic, M, args, p, P, Qs, todo, V, A, callerA>>

NextDoc == CallMkDoc \/ CallUnigramPs \/ CallSkipgramPs \/ CallPMIs

SpecDoc == Init /\ [][NextDoc]_vars

\* ------------------------------------------------------------ Incidency
\* 1 / v, kept symbolically (v is a logarithm).
Recip(v) == [recip |-> v]

RECURSIVE RowSum(_, _, _)
RowSum(row, js, sigma) ==
    IF js = {} THEN sigma
    ELSE LET j == CHOOSE x \in js : TRUE
         IN  RowSum(row, js \ {j}, LogAdd(sigma, row[j]))

\* Of assigns a fresh map to its receiver I, a local copy of the caller's map
\* header: the caller's map is what it was, and the scores stay in the local.
Of(recv, d, maxJ) ==
    LET S == PMIs(d, maxJ)
        sigma(t) == RowSum(S[TokId(d, t)], Ids(d), Log(FromInt(1)))
        local == [nil |-> FALSE,
                  kv  |-> [t \in DOMAIN d.TokenIndices.kv |-> Recip(sigma(t))]]
    IN  [caller |-> recv, local |-> local]

\* The scores an incidence map can hold: any float64.
Scores == {FromInt(k) : k \in 0..MaxScore} \cup {PosInf, NaN}

Incidencies ==
    {NilMap} \cup
    {[nil |-> FALSE, kv |-> f] : f \in UNION {[S -> Scores] : S \in SUBSET Terms}}

\* The orders in which `range` can visit the keys of a map.
RangeOrders(S) ==
    {s \in [1..Cardinality(S) -> S] : \A i, j \in DOMAIN s : s[i] = s[j] => i = j}

KeywordsLessFlipped(Im, s, t) == FLess(Im.kv[t], Im.kv[s])

KeywordsLess(Im, s, t) == FLess(Im.kv[s], Im.kv[t])

Swap(s, i, j) == [s EXCEPT ![i] = s[j], ![j] = s[i]]

\* sort.Slice on a short slice is an insertion sort by the less closure.
RECURSIVE SortSink(_, _, _)
SortSink(Im, s, j) ==
    IF j > 1 /\ KeywordsLess(Im, s[j], s[j - 1])
    THEN SortSink(Im, Swap(s, j, j - 1), j - 1)
    ELSE s

RECURSIVE SortSlice(_, _, _)
SortSlice(Im, s, i) ==
    IF i > Len(s) THEN s ELSE SortSlice(Im, SortSink(Im, s, i), i + 1)

\* Go's integer %: the result has the sign of the dividend.
GoRem(a, b) == Sgn(a) * (Abs(a) % b)

\* if n != nil { k := *n; k %= len(I); rtn = rtn[:k] }
KeywordsCut(Im, k, rtn) ==
    IF k.nil THEN [panic |-> FALSE, rtn |-> rtn]
    ELSE IF MapLen(Im) = 0 THEN [panic |-> TRUE, rtn |-> <<>>]
    ELSE LET r == GoRem(k.v, MapLen(Im)) IN
         IF r < 0 \/ r > Len(rtn) THEN [panic |-> TRUE, rtn |-> <<>>]
         ELSE [panic |-> FALSE, rtn |-> SubSeq(rtn, 1, r)]

Keywords(Im, k, order) == KeywordsCut(Im, k, SortSlice(Im, order, 2))

\* KeyVecs: I is declared nil, Of leaves it nil, and Keywords runs on it.  The
\* loop body writes to the nil map rtn.
KeyVecs(d, maxJ, maxDim) ==
    LET Ic == Of(NilMap, d, maxJ).caller
        K  == Keywords(Ic, maxDim, <<>>)
    IN  IF K.panic THEN [panic |-> TRUE, I |-> Ic, rtn |-> NilMap]
        ELSE [panic |-> Len(K.rtn) > 0, I |-> Ic, rtn |-> NilMap]

\* A *int argument: nil, or a pointer to v.
NilInt == [nil |-> TRUE, v |-> 0]

IntPtr(k) == [nil |-> FALSE, v |-> k]

NArgs == {NilInt} \cup {IntPtr(k) : k \in -1..MaxN}

CallOf ==
    /\ pc = "idle"
    /\ \E d \in Docs, mj \in 1..MaxJuxtBound, recv \in {NilMap, MakeMap} :
          LET r == Of(recv, d, mj) IN
          /\ D' = d
          /\ maxJuxt' = mj
          /\ I' = r.caller
          /\ ret' = r.local
    /\ pc' = "Of"
    /\ UNCHANGED <<n, panic, M, args, p, P, Qs, todo, V, A, callerA>>

CallKeywords ==
    /\ pc = "idle"
    /\ \E Im \in Incidencies, k \in NArgs :
          \E order \in RangeOrders(DOMAIN Im.kv) :
             LET r == Keywords(Im, k, order) IN
             /\ I' = Im
             /\ n' = k
             /\ ret' = r.rtn
             /\ panic' = r.panic
    /\ pc' = "Keywords"
    /\ UNCHANGED <<D, maxJuxt, M, args, p, P, Qs, todo, V, A, callerA>>

CallKeyVecs ==
    /\ pc = "idle"
    /\ \E d \in Docs, mj \in 1..MaxJuxtBound, k \in NArgs :
          LET r == KeyVecs(d, mj, k) IN
          /\ D' = d
          /\ maxJuxt' = mj
          /\ n' = k
          /\ I' = r.I
          /\ ret' = r.rtn
          /\ panic' = r.panic
    /\ pc' = "KeyVecs"
    /\ UNCHANGED <<M, args, p, P, Qs, todo, V, A, callerA>>

NextKey == CallOf \/ CallKeywords \/ CallKeyVecs

SpecKey == Init /\ [][NextKey]_vars

SpecKeywords == Init /\ [][CallKeywords]_vars

\* ------------------------------------------------------------ Adjacency
Vecs == [1..VecDim -> 0..MaxComp]

RECURSIVE DotFrom(_, _, _)
DotFrom(x, y, i) == IF i > VecDim THEN 0 ELSE x[i] * y[i] + DotFrom(x, y, i + 1)

\* mat.Dot of two vectors of the same length.
Dot(x, y) == FromInt(DotFrom(x, y, 1))

\* A VecMapping: term -> vector.  m[k] of an absent k is the nil Vector.
VecMappings == UNION {[S -> Vecs] : S \in SUBSET AdjTerms}

Corpora == UNION {[1..k -> VecMappings] : k \in 1..MaxCorpora}

\* append(M[:p], M[p+1:]...): M[:p] has the capacity of M, so the elements
\* after p are copied one place down inside M's own backing array, and the
\* result is its first len(M)-1 elements.  p is the 0-based index.
AppendShift(m, i) ==
    [x \in 1..Len(m) |-> IF x >= i + 1 /\ x < Len(m) THEN m[x + 1] ELSE m[x]]

OthersOf(m, i) == SubSeq(AppendShift(m, i), 1, Len(m) - 1)

\* for q := 0; q < len(Qs) && ok; q++ { _, ok = Qs[q][k] }
InAll(qs, k) == \A q \in 1..Len(qs) : k \in DOMAIN qs[q]

RECURSIVE SigmaOver(_, _, _, _, _)
SigmaOver(Pm, Qm, k, ts, sigma) ==
    IF ts = {} THEN sigma
    ELSE LET t == CHOOSE x \in ts : TRUE
             c == Dot(Pm[k], Qm[k])
             d == Dot(Pm[t], Qm[t])
         IN  SigmaOver(Pm, Qm, k, ts \ {t}, FAdd(sigma, FDiv(c, d)))

\* for q, Q := range Qs { ... A[k] = (A[k]*n + sigma) / n }, from 0-based q.
RECURSIVE MeanOver(_, _, _, _, _, _)
MeanOver(Pm, qs, k, vs, q, ak) ==
    IF q >= Len(qs) THEN ak
    ELSE LET Qm == qs[q + 1]
             s0 == SigmaOver(Pm, Qm, k, vs, FromInt(0))
             nn == FromInt(q)
             sigma == FDiv(s0, FromInt(Cardinality(vs)))
         IN  MeanOver(Pm, qs, k, vs, q + 1, FDiv(FAdd(FMul(ak, nn), sigma), nn))

\* mat.Dot dereferences its arguments: a nil Vector (a term the mapping does
\* not hold) panics.
DotPanics(Pm, qs, k, vs) ==
    /\ vs # {}
    /\ \E q \in 1..Len(qs) : \E t \in vs \cup {k} :
          t \notin DOMAIN Pm \/ t \notin DOMAIN qs[q]

DocSim(Am) ==
    LET RECURSIVE Sum(_, _)
        Sum(ks, sigma) ==
            IF ks = {} THEN sigma
            ELSE LET k == CHOOSE x \in ks : TRUE
                 IN  Sum(ks \ {k}, FAdd(sigma, Am.kv[k]))
    IN  FDiv(Sum(DOMAIN Am.kv, FromInt(0)), FromInt(MapLen(Am)))

\* Between is entered: A is rebound to a fresh map (the caller's map is not
\* touched), V is empty and the first loop reads P = M[0].
BetweenCall ==
    /\ pc = "idle"
    /\ \E ms \in Corpora :
          /\ M' = ms
          /\ args' = ms
          /\ P' = ms[1]
          /\ todo' = DOMAIN ms[1]
    /\ callerA' = MakeMap
    /\ A' = MakeMap
    /\ V' = {}
    /\ p' = 0
    /\ Qs' = <<>>
    /\ pc' = "loop1"
    /\ UNCHANGED <<D, maxJuxt, I, n, ret, panic>>

\* One pass of `for k := range P` in the first loop.
Loop1Body ==
    /\ pc = "loop1"
    /\ \E k \in todo :
          /\ todo' = todo \ {k}
          /\ M' = AppendShift(M, p)
          /\ Qs' = OthersOf(M, p)
          /\ V' = IF InAll(OthersOf(M, p), k) THEN V \cup {k} ELSE V
    /\ UNCHANGED <<pc, D, maxJuxt, I, n, ret, panic, args, p, P, A, callerA>>

\* `for p, P := range M`: the next P is read from M as it now is; after the
\* last one the second loop starts, again from M[0].
Loop1Next ==
    /\ pc = "loop1"
    /\ todo = {}
    /\ IF p + 1 < Len(M)
       THEN /\ p' = p + 1
            /\ P' = M[p + 2]
            /\ todo' = DOMAIN M[p + 2]
            /\ pc' = "loop1"
       ELSE /\ p' = 0
            /\ P' = M[1]
            /\ todo' = V
            /\ pc' = "loop2"
    /\ Qs' = <<>>
    /\ UNCHANGED <<D, maxJuxt, I, n, ret, panic, M, args, V, A, callerA>>

\* One pass of `for k := range V` in the second loop.
Loop2Body ==
    /\ pc = "loop2"
    /\ \E k \in todo :
          /\ todo' = todo \ {k}
          /\ M' = AppendShift(M, p)
          /\ Qs' = OthersOf(M, p)
          /\ IF DotPanics(P, OthersOf(M, p), k, V)
             THEN /\ panic' = TRUE
                  /\ pc' = "Between"
                  /\ A' = MapPut(A, k, FromInt(0))
             ELSE /\ panic' = FALSE
                  /\ pc' = "loop2"
                  /\ A' = MapPut(A, k, MeanOver(P, OthersOf(M, p), k, V, 0, FromInt(0)))
    /\ UNCHANGED <<D, maxJuxt, I, n, ret, args, p, P, V, callerA>>

Loop2Next ==
    /\ pc = "loop2"
    /\ todo = {}
    /\ IF p + 1 < Len(M)
       THEN /\ p' = p + 1
            /\ P' = M[p + 2]
            /\ todo' = V
            /\ pc' = "loop2"
       ELSE /\ pc' = "Between"
            /\ UNCHANGED <<p, P, todo>>
    /\ Qs' = <<>>
    /\ UNCHANGED <<D, maxJuxt, I, n, ret, panic, M, args, V, A, callerA>>

\* The caller reduces the map it passed as the receiver.
CallDocSim ==
    /\ pc = "Between"
    /\ ~panic
    /\ ret' = DocSim(callerA)
    /\ pc' = "DocSim"
    /\ UNCHANGED <<D, maxJuxt, I, n, panic, M, args, p, P, Qs, todo, V, A, callerA>>

NextAdj ==
    \/ BetweenCall
    \/ Loop1Body
    \/ Loop1Next
    \/ Loop2Body
    \/ Loop2Next
    \/ CallDocSim

SpecAdj == Init /\ [][NextAdj]_vars

\* ================================================================ claims

\* The first position of token t in text.
FirstAt(text, t) == CHOOSE i \in 1..Len(text) : text[i] = t /\ \A j \in 1..(i - 1) : text[j] # t

TokenSet(text) == {text[i] : i \in 1..Len(text)}

\* C1: for every token sequence with at least one token, MkDoc returns
\* without failing, and TokenIndices maps each distinct token to one id, the
\* ids being exactly 0..vocabSize-1 in order of first occurrence.
C1_MkDocIndexes ==
    (pc = "MkDoc" /\ Len(D.Tokens) >= 1) =>
        /\ ~panic
        /\ DOMAIN D.TokenIndices.kv = TokenSet(D.Tokens)
        /\ {D.TokenIndices.kv[t] : t \in TokenSet(D.Tokens)}
              = 0..(Cardinality(TokenSet(D.Tokens)) - 1)
        /\ \A s, t \in TokenSet(D.Tokens) :
              (D.TokenIndices.kv[s] < D.TokenIndices.kv[t])
                 <=> (FirstAt(D.Tokens, s) < FirstAt(D.Tokens, t))

\* C2: for every document and every maxJuxt >= 1 the matrix returned by
\* SkipgramPs is symmetric: cell (i,j) equals cell (j,i).
C2_SkipgramSymmetric ==
    pc = "SkipgramPs" => \A i, j \in Ids(D) : ret[i][j] = ret[j][i]

TermCount(d, i) == Cardinality({k \in 1..Len(d.Tokens) : TokId(d, d.Tokens[k]) = i})

RECURSIVE SumTo(_, _)
SumTo(f, i) == IF i < 0 THEN FromInt(0) ELSE FAdd(f[i], SumTo(f, i - 1))

\* C3: for every non-empty document each entry of UnigramPs is the term's
\* occurrence count divided by the number of tokens, and the entries sum to 1.
C3_UnigramSumsToOne ==
    (pc = "UnigramPs" /\ Len(D.Tokens) >= 1) =>
        /\ \A i \in Ids(D) : ret[i] = Rat(TermCount(D, i), Len(D.Tokens))
        /\ SumTo(ret, VocabLength(D) - 1) = FromInt(1)

\* C4: no weight added by SkipgramPs comes from a division by zero, so every
\* cell of the co-occurrence matrix is finite, and so is every PMI value
\* computed from an existing (non-zero) cell.
C4_CellsFinite ==
    /\ pc = "SkipgramPs" => \A i, j \in Ids(D) : IsFinite(ret[i][j])
    /\ pc = "PMIs" =>
          \A i, j \in Ids(D) :
             ~IsZero(SkipgramPs(D, maxJuxt)[i][j]) => LogIsFinite(ret[i][j])

\* C5: for every populated incidence map I and every non-nil n >= 0,
\* Keywords(n) returns without failing exactly (n mod vocabSize) terms of I,
\* no term twice, in ascending order of score: of two consecutive results the
\* first does not score greater than the second, and (where the scores are
\* ordered, that is none is NaN) no term left out scores less than a term
\* returned.
C5_KeywordsSortedPrefix ==
    (pc = "Keywords" /\ MapLen(I) >= 1 /\ ~n.nil /\ n.v >= 0) =>
        /\ ~panic
        /\ Len(ret) = n.v % MapLen(I)
        /\ \A i \in 1..Len(ret) : ret[i] \in DOMAIN I.kv
        /\ \A i, j \in 1..Len(ret) : ret[i] = ret[j] => i = j
        /\ \A i \in 1..(Len(ret) - 1) : ~FLess(I.kv[ret[i + 1]], I.kv[ret[i]])
        /\ (\A t \in DOMAIN I.kv : ~IsNaN(I.kv[t])) =>
              \A i \in 1..Len(ret) :
                 \A t \in DOMAIN I.kv \ {ret[j] : j \in 1..Len(ret)} :
                    ~FLess(I.kv[t], I.kv[ret[i]])

\* A count larger than a three-term map wraps around to two terms, returned
\* in strictly ascending order while the third term scores more.
C5_Witness ==
    /\ pc = "Keywords"
    /\ ~panic
    /\ MapLen(I) = 3
    /\ ~n.nil /\ n.v = 5
    /\ Len(ret) = 2
    /\ FLess(I.kv[ret[1]], I.kv[ret[2]])
    /\ \E t \in DOMAIN I.kv : FLess(I.kv[ret[2]], I.kv[t])

\* C6: on an empty incidence map (an empty corpus) Keywords, with any count,
\* nil or not, returns an empty sequence and does not fail; nor does KeyVecs
\* on an empty document.
C6_EmptyCorpusKeywords ==
    /\ (pc = "Keywords" /\ MapLen(I) = 0 /\ (n.nil \/ n.v >= 0)) =>
          (~panic /\ Len(ret) = 0)
    /\ (pc = "KeyVecs" /\ VocabLength(D) = 0) => (~panic /\ MapLen(ret) = 0)

SharedVocab(ms) == {k \in AdjTerms : \A i \in 1..Len(ms) : k \in DOMAIN ms[i]}

\* C7: for two or more mappings, the V computed by the first loop of Between
\* is the intersection of the key sets of the mappings supplied.
C7_SharedVocabulary ==
    (pc = "loop2" /\ Len(args) >= 2) => V = SharedVocab(args)

\* C8: for two identical non-empty mappings Between divides by no zero: every
\* per-term score is finite, and DocSim of the adjacency map is finite.  (It
\* is stated for mappings without a zero vector, so that no term's own
\* similarity dot(P[t], Q[t]) is the zero divisor.)
C8_IdenticalCorporaFinite ==
    (/\ Len(args) = 2 /\ args[1] = args[2] /\ DOMAIN args[1] # {}
     /\ \A t \in DOMAIN args[1] : ~IsZero(Dot(args[1][t], args[1][t]))) =>
        /\ pc = "Between" => (~panic /\ \A k \in DOMAIN A.kv : IsFinite(A.kv[k]))
        /\ pc = "DocSim" => IsFinite(ret)

\* C9: after Of(D, maxJuxt) the map the caller holds (the one KeyVecs goes on
\* to query) has a score for every vocabulary term of D and for no other.
C9_OfFillsCallersMap ==
    pc \in {"Of", "KeyVecs"} => DOMAIN I.kv = DOMAIN D.TokenIndices.kv

RemoveAt(s, i) == [x \in 1..(Len(s) - 1) |-> IF x < i THEN s[x] ELSE s[x + 1]]

\* C10: Between reads its inputs only: in every pass of both loops P is the
\* p-th mapping supplied and Qs is the supplied sequence without its p-th
\* element, and after the call the supplied sequence is unchanged.
C10_InputsReadOnly ==
    Len(args) >= 2 =>
        /\ pc \in {"loop1", "loop2"} =>
              /\ P = args[p + 1]
              /\ Qs # <<>> => Qs = RemoveAt(args, p + 1)
        /\ pc \in {"loop1", "loop2", "Between"} => M = args

====
